---- MODULE Spec2Model ----
(***************************************************************************)
(* Model of crypto_mcp.py: an MCP server exposing three tools and one      *)
(* resource.  Each tool call renders MASTER_PROMPT, issues one call to the *)
(* generative model and normalises the reply with                          *)
(* extract_json_from_response.                                             *)
(*                                                                         *)
(* A Python str is modelled as a sequence of one-character strings, so     *)
(* find, rfind, slicing, strip, format, json.loads and json.dumps are      *)
(* computed character by character.                                        *)
(***************************************************************************)
EXTENDS Integers, Sequences, FiniteSets, TLC

VARIABLES pc, req, result, calls, upstreamFailed, readFailed

vars == <<pc, req, result, calls, upstreamFailed, readFailed>>

\* ------------------------------------------------------------------------
\* Bounds of the model
\* ------------------------------------------------------------------------

\* longest reply text enumerated for the normaliser, in chunks
MaxChunks == 4

\* longest topic enumerated for the prompt builder, in chunks
MaxTopicChunks == 2

\* The grave accent (U+0060), which a TLA+ string literal cannot contain;
\* three of them make a Markdown fence.
BT == "U+0060"

\* ------------------------------------------------------------------------
\* Python str primitives
\* ------------------------------------------------------------------------

\* str.strip() with no argument removes these (restricted to the characters
\* the model's texts can contain)
Whitespace == {" ", "\n", "\t", "\r"}

RECURSIVE Concat(_)
\* "".join(parts)
Concat(parts) ==
    IF parts = <<>> THEN <<>>
    ELSE IF Len(parts) = 1 THEN parts[1]
    ELSE LET half == Len(parts) \div 2
         IN  Concat(SubSeq(parts, 1, half))
             \o Concat(SubSeq(parts, half + 1, Len(parts)))

\* text[i:i+len(pat)] == pat, i a 0-based index
MatchAt(text, pat, i) ==
    /\ i >= 0
    /\ i + Len(pat) <= Len(text)
    /\ SubSeq(text, i + 1, i + Len(pat)) = pat

\* least and greatest member of a non-empty set of integers
Least(S) == CHOOSE x \in S : \A y \in S : x <= y
Greatest(S) == CHOOSE x \in S : \A y \in S : x >= y

\* text.find(pat, start): lowest 0-based index of pat at or after start,
\* -1 when there is none
FindFrom(text, pat, start) ==
    LET at == {i \in start..(Len(text) - Len(pat)) : MatchAt(text, pat, i)}
    IN  IF at = {} THEN -1 ELSE Least(at)

\* text.find(pat)
find(text, pat) == FindFrom(text, pat, 0)

\* text.rfind(pat): highest 0-based index of pat in text, -1 when absent
rfind(text, pat) ==
    LET at == {i \in 0..(Len(text) - Len(pat)) : MatchAt(text, pat, i)}
    IN  IF at = {} THEN -1 ELSE Greatest(at)

\* one bound of a slice: negative counts from the end, then clamp to 0..len
SliceIndex(n, i) ==
    LET j == IF i < 0 THEN i + n ELSE i
    IN  IF j < 0 THEN 0 ELSE IF j > n THEN n ELSE j

\* text[a:b]
Slice(text, a, b) ==
    SubSeq(text, SliceIndex(Len(text), a) + 1, SliceIndex(Len(text), b))

\* s.strip(): s without its leading and trailing whitespace
strip(s) ==
    LET kept == {i \in 1..Len(s) : s[i] \notin Whitespace}
    IN  IF kept = {} THEN <<>> ELSE SubSeq(s, Least(kept), Greatest(kept))

\* number of (possibly overlapping) occurrences of pat in text
Occurrences(text, pat) ==
    Cardinality({i \in 0..Len(text) : MatchAt(text, pat, i)})

\* ------------------------------------------------------------------------
\* MASTER_PROMPT and str.format
\* ------------------------------------------------------------------------

Lit(text) == [kind |-> "lit", text |-> text]
Field(name) == [kind |-> "field", name |-> name]
Escaped(ch) == [kind |-> "esc", text |-> <<ch>>]

PromptIntro ==
    <<
    "\n","Y","o","u"," ","a","r","e"," ","a"," ","w","o","r","l","d","-","c","l","a","s","s",
    " ","f","i","n","a","n","c","i","a","l"," ","e","n","g","i","n","e","e","r"," ","a","n","d",
    " ","s","e","n","i","o","r"," ","q","u","a","n","t","i","t","a","t","i","v","e"," ","a","n",
    "a","l","y","s","t","."," ","Y","o","u"," ","h","a","v","e"," ","d","e","e","p"," ","e","x",
    "p","e","r","t","i","s","e"," ","i","n"," ","c","r","y","p","t","o","c","u","r","r","e","n",
    "c","y"," ","t","r","a","d","i","n","g",","," ","a","l","g","o","r","i","t","h","m","i","c",
    " ","s","t","r","a","t","e","g","i","e","s",","," ","a","d","v","a","n","c","e","d"," ","s",
    "t","a","t","i","s","t","i","c","s",","," ","a","n","d"," ","m","a","c","h","i","n","e"," ",
    "l","e","a","r","n","i","n","g"," ","m","o","d","e","l","s","."," ","\n","\n","Y","o","u",
    "r"," ","t","a","s","k"," ","i","s"," ","t","o"," ","p","r","o","v","i","d","e"," ","a"," ",
    "c","o","m","p","r","e","h","e","n","s","i","v","e",","," ","i","m","p","l","e","m","e","n",
    "t","a","t","i","o","n","-","f","o","c","u","s","e","d"," ","g","u","i","d","e"," ","f","o",
    "r"," ","a","n"," ","A","I"," ","s","o","f","t","w","a","r","e"," ","d","e","v","e","l","o",
    "p","e","r"," ","o","n"," ","t","h","e"," ","f","o","l","l","o","w","i","n","g"," ","t","o",
    "p","i","c",":"," ","\""
    >>

PromptSteps ==
    <<
    "\"","\n","\n","Y","o","u"," ","M","U","S","T"," ","f","o","l","l","o","w"," ","t","h","e",
    "s","e"," ","s","t","e","p","s",":","\n","1","."," "," ","*","*","I","n","t","e","r","n",
    "a","l"," ","R","e","s","e","a","r","c","h",":","*","*"," ","U","s","e"," ","y","o","u","r",
    " ","b","u","i","l","t","-","i","n"," ","G","o","o","g","l","e"," ","S","e","a","r","c","h",
    " ","t","o","o","l"," ","t","o"," ","c","o","n","d","u","c","t"," ","t","h","o","r","o","u",
    "g","h"," ","r","e","s","e","a","r","c","h"," ","o","n"," ","t","h","e"," ","t","o","p","i",
    "c","."," ","F","i","n","d"," ","t","h","e"," ","o","f","f","i","c","i","a","l"," ","d","e",
    "f","i","n","i","t","i","o","n",","," ","t","h","e"," ","u","n","d","e","r","l","y","i","n",
    "g"," ","m","a","t","h","e","m","a","t","i","c","a","l"," ","o","r"," ","l","o","g","i","c",
    "a","l"," ","f","o","r","m","u","l","a",","," ","c","o","m","m","o","n"," ","u","s","e"," ",
    "c","a","s","e","s"," ","i","n"," ","t","h","e"," ","c","r","y","p","t","o"," ","d","o","m",
    "a","i","n",","," ","a","n","d"," ","p","o","p","u","l","a","r"," ","P","y","t","h","o","n",
    " ","i","m","p","l","e","m","e","n","t","a","t","i","o","n","s",".","\n","2","."," "," ",
    "*","*","C","r","i","t","i","c","a","l"," ","S","y","n","t","h","e","s","i","s",":","*","*",
    " ","A","n","a","l","y","z","e"," ","t","h","e"," ","s","e","a","r","c","h"," ","r","e","s",
    "u","l","t","s","."," ","D","i","s","c","a","r","d"," ","a","n","y"," ","p","r","o","m","o",
    "t","i","o","n","a","l"," ","f","l","u","f","f",","," ","i","r","r","e","l","e","v","a","n",
    "t"," ","i","n","f","o","r","m","a","t","i","o","n",","," ","o","r"," ","o","v","e","r","l",
    "y"," ","s","i","m","p","l","i","s","t","i","c"," ","e","x","p","l","a","n","a","t","i","o",
    "n","s","."," ","S","y","n","t","h","e","s","i","z","e"," ","t","h","e"," ","c","o","r","e",
    ","," ","a","c","t","i","o","n","a","b","l","e"," ","k","n","o","w","l","e","d","g","e",".",
    "\n","3","."," "," ","*","*","S","t","r","u","c","t","u","r","e","d"," ","F","o","r","m",
    "a","t","t","i","n","g",":","*","*"," ","Y","o","u"," ","M","U","S","T"," ","f","o","r","m",
    "a","t"," ","y","o","u","r"," ","e","n","t","i","r","e"," ","f","i","n","a","l"," ","a","n",
    "s","w","e","r"," ","a","s"," ","a"," ","s","i","n","g","l","e",","," ","v","a","l","i","d",
    " ","J","S","O","N"," ","o","b","j","e","c","t","."," ","T","h","e","r","e"," ","s","h","o",
    "u","l","d"," ","b","e"," ","N","O"," ","t","e","x","t",","," ","e","x","p","l","a","n","a",
    "t","i","o","n",","," ","o","r"," ","m","a","r","k","d","o","w","n"," ","o","u","t","s","i",
    "d","e"," ","o","f"," ","t","h","e"," ",BT,BT,BT,"j","s","o","n"," ",".",".","."," ",BT,BT,
    BT," ","b","l","o","c","k",".","\n","\n","T","h","e"," ","J","S","O","N"," ","o","b","j",
    "e","c","t"," ","m","u","s","t"," ","s","t","r","i","c","t","l","y"," ","f","o","l","l","o",
    "w"," ","t","h","i","s"," ","s","t","r","u","c","t","u","r","e",":","\n"
    >>

PromptSchema ==
    <<
    "\n"," "," ","\"","n","a","m","e","\"",":"," ","\"","T","h","e"," ","f","u","l","l",","," ",
    "o","f","f","i","c","i","a","l"," ","n","a","m","e"," ","o","f"," ","t","h","e"," ","c","o",
    "n","c","e","p","t",".","\"",",","\n"," "," ","\"","d","e","s","c","r","i","p","t","i","o",
    "n","\"",":"," ","\"","A"," ","c","l","e","a","r",","," ","c","o","n","c","i","s","e"," ",
    "e","x","p","l","a","n","a","t","i","o","n"," ","o","f"," ","w","h","a","t"," ","t","h","e",
    " ","c","o","n","c","e","p","t"," ","i","s"," ","a","n","d"," ","i","t","s"," ","p","r","i",
    "m","a","r","y"," ","p","u","r","p","o","s","e",".","\"",",","\n"," "," ","\"","u","s","e",
    "_","c","a","s","e","_","i","n","_","c","r","y","p","t","o","\"",":"," ","\"","S","p","e",
    "c","i","f","i","c",","," ","p","r","a","c","t","i","c","a","l"," ","a","p","p","l","i","c",
    "a","t","i","o","n","s"," ","o","f"," ","t","h","i","s"," ","c","o","n","c","e","p","t"," ",
    "f","o","r"," ","c","r","y","p","t","o","c","u","r","r","e","n","c","y"," ","a","n","a","l",
    "y","s","i","s"," ","o","r"," ","t","r","a","d","i","n","g",","," ","b","a","s","e","d"," ",
    "o","n"," ","y","o","u","r"," ","r","e","s","e","a","r","c","h",".","\"",",","\n"," "," ",
    "\"","c","o","m","p","o","n","e","n","t","s","_","o","r","_","f","o","r","m","u","l","a",
    "\"",":"," ","\"","T","h","e"," ","m","a","t","h","e","m","a","t","i","c","a","l"," ","f",
    "o","r","m","u","l","a",","," ","k","e","y"," ","c","o","m","p","o","n","e","n","t","s",",",
    " ","o","r"," ","l","o","g","i","c","a","l"," ","s","t","e","p","s"," ","e","x","p","l","a",
    "i","n","e","d"," ","c","l","e","a","r","l","y","."," ","T","h","i","s"," ","m","u","s","t",
    " ","b","e"," ","a"," ","s","t","r","i","n","g",".","\"",",","\n"," "," ","\"","i","m","p",
    "l","e","m","e","n","t","a","t","i","o","n","_","s","t","e","p","s","\"",":"," ","[","\n",
    " "," "," "," ","\"","A"," ","n","u","m","b","e","r","e","d"," ","l","i","s","t"," ","o",
    "f"," ","h","i","g","h","-","l","e","v","e","l"," ","s","t","e","p","s"," ","f","o","r"," ",
    "a"," ","d","e","v","e","l","o","p","e","r"," ","t","o"," ","f","o","l","l","o","w"," ","f",
    "o","r"," ","i","m","p","l","e","m","e","n","t","a","t","i","o","n",".","\"",",","\n"," ",
    " "," "," ","\"","S","t","e","p"," ","2",".",".",".","\"",",","\n"," "," "," "," ","\"","S",
    "t","e","p"," ","3",".",".",".","\"","\n"," "," ","]",",","\n"," "," ","\"","p","y","t","h",
    "o","n","_","e","x","a","m","p","l","e","\"",":"," ","\"","A"," ","c","l","e","a","n",",",
    " ","w","e","l","l","-","c","o","m","m","e","n","t","e","d",","," ","a","n","d"," ","p","r",
    "a","c","t","i","c","a","l"," ","P","y","t","h","o","n"," ","c","o","d","e"," ","s","n","i",
    "p","p","e","t"," ","d","e","m","o","n","s","t","r","a","t","i","n","g"," ","a"," ","c","o",
    "m","m","o","n"," ","i","m","p","l","e","m","e","n","t","a","t","i","o","n","."," ","T","h",
    "e"," ","c","o","d","e"," ","s","h","o","u","l","d"," ","b","e"," ","s","e","l","f","-","c",
    "o","n","t","a","i","n","e","d"," ","w","h","e","r","e"," ","p","o","s","s","i","b","l","e",
    ".","\"",",","\n"," "," ","\"","k","e","y","_","c","o","n","s","i","d","e","r","a","t","i",
    "o","n","s","\"",":"," ","[","\n"," "," "," "," "," "," ","\"","A"," ","l","i","s","t"," ",
    "o","f"," ","p","o","t","e","n","t","i","a","l"," ","p","i","t","f","a","l","l","s",","," ",
    "l","i","m","i","t","a","t","i","o","n","s",","," ","o","r"," ","e","x","p","e","r","t"," ",
    "b","e","s","t"," ","p","r","a","c","t","i","c","e","s"," ","t","o"," ","b","e"," ","a","w",
    "a","r","e"," ","o","f"," ","d","u","r","i","n","g"," ","i","m","p","l","e","m","e","n","t",
    "a","t","i","o","n",".","\"",",","\n"," "," "," "," "," "," ","\"","C","o","n","s","i","d",
    "e","r","a","t","i","o","n"," ","2",".",".",".","\"","\n"," "," ","]","\n"
    >>

PromptOutro ==
    <<
    "\n","\n","N","o","w",","," ","b","e","g","i","n"," ","y","o","u","r"," ","r","e","s","e",
    "a","r","c","h"," ","a","n","d"," ","p","r","o","v","i","d","e"," ","t","h","e"," ","s","t",
    "r","u","c","t","u","r","e","d"," ","r","e","s","p","o","n","s","e"," ","f","o","r"," ","t",
    "h","e"," ","s","p","e","c","i","f","i","e","d"," ","t","o","p","i","c",".","\n"
    >>

\* The template as str.format scans it: literal text, the replacement field
\* {topic}, and the doubled braces that stand for one literal brace each.
MASTER_PROMPT ==
    << Lit(PromptIntro), Field("topic"), Lit(PromptSteps), Escaped("{"),
       Lit(PromptSchema), Escaped("}"), Lit(PromptOutro) >>

\* FormatPart as plain text replacement of the field would leave it: the
\* doubled braces stay doubled
FormatPartKeepsDoubledBraces(part, topic) ==
    IF part.kind = "field" THEN topic
    ELSE IF part.kind = "esc" THEN part.text \o part.text
    ELSE part.text

\* what one scanned part contributes to the output; a replacement value is
\* copied as is and never scanned again
FormatPart(part, topic) ==
    IF part.kind = "field" THEN topic ELSE part.text

\* template.format(topic=topic)
Format(template, topic) ==
    Concat([k \in 1..Len(template) |-> FormatPart(template[k], topic)])

\* ------------------------------------------------------------------------
\* json.loads (strict JSON as Python's decoder accepts it)
\*
\* A parsed value is a record [t, v]: t is the Python type, v its content as
\* a sequence.  A dict is the sequence of its items in insertion order.  A
\* number or a literal keeps its lexeme, which is exact for the plain
\* integers and the literals the model's texts spell.
\* ------------------------------------------------------------------------

StrVal(chars) == [t |-> "str", v |-> chars]
NumVal(lexeme) == [t |-> "num", v |-> lexeme]
LitVal(word) == [t |-> "lit", v |-> word]
ArrVal(items) == [t |-> "arr", v |-> items]
ObjVal(items) == [t |-> "obj", v |-> items]

Item(key, val) == [k |-> key, val |-> val]

\* d[key] = val on a dict: a new key goes last, a repeated key keeps its
\* place and takes the new value
DictPut(d, key, val) ==
    IF \E n \in 1..Len(d) : d[n].k = key
    THEN [n \in 1..Len(d) |-> IF d[n].k = key THEN Item(key, val) ELSE d[n]]
    ELSE Append(d, Item(key, val))

Fail == [ok |-> FALSE, val |-> <<>>, next |-> 0]
Ok(val, next) == [ok |-> TRUE, val |-> val, next |-> next]

JsonWhitespace == {" ", "\n", "\t", "\r"}
Digits == {"0", "1", "2", "3", "4", "5", "6", "7", "8", "9"}

\* the words the scanner accepts as values besides strings, numbers,
\* arrays and objects
JsonWords ==
    << <<"n","u","l","l">>, <<"t","r","u","e">>, <<"f","a","l","s","e">>, <<"N","a","N">>, <<"I","n","f","i","n","i","t","y">>,
       <<"-","I","n","f","i","n","i","t","y">> >>

\* first index at or after i that holds none of the characters of set,
\* Len(s) + 1 when there is none
SkipAll(s, i, set) ==
    Least({j \in i..(Len(s) + 1) : j = Len(s) + 1 \/ s[j] \notin set})

\* first index at or after i that holds no JSON whitespace
SkipWs(s, i) == IF i > Len(s) THEN i ELSE SkipAll(s, i, JsonWhitespace)

\* the character a backslash escape stands for; <<>> for an escape the
\* model does not decode (\b, \f, \uXXXX: no model text contains them)
Unescape(c) ==
    CASE c = "\"" -> <<"\"">>
      [] c = "\\" -> <<"\\">>
      [] c = "/" -> <<"/">>
      [] c = "n" -> <<"\n">>
      [] c = "t" -> <<"\t">>
      [] c = "r" -> <<"\r">>
      [] OTHER -> <<>>

\* number of backslashes standing immediately before index j, not counting
\* any before index i
BackslashesBefore(s, i, j) ==
    LET other == {k \in i..(j - 1) : s[k] # "\\"}
    IN  IF other = {} THEN j - i ELSE j - 1 - Greatest(other)

\* index k starts an escape: a backslash that no earlier backslash escapes
EscapeStart(s, i, k) ==
    s[k] = "\\" /\ BackslashesBefore(s, i, k) % 2 = 0

\* a JSON string whose opening quote stands before index i: it ends at the
\* first quote that no backslash escapes; a raw control character or an
\* escape that is not decoded makes it an error (strict mode)
ParseString(s, i) ==
    LET quotes == {j \in i..Len(s) :
                     s[j] = "\"" /\ BackslashesBefore(s, i, j) % 2 = 0}
    IN  IF quotes = {} THEN Fail
        ELSE LET end == Least(quotes)
                 escaped(k) == k > i /\ EscapeStart(s, i, k - 1)
                 decoded(k) ==
                     IF EscapeStart(s, i, k) THEN <<>>
                     ELSE IF escaped(k) THEN Unescape(s[k])
                     ELSE <<s[k]>>
             IN  IF \E k \in i..(end - 1) :
                       \/ s[k] \in {"\n", "\t", "\r"}
                       \/ escaped(k) /\ Unescape(s[k]) = <<>>
                 THEN Fail
                 ELSE Ok(StrVal(Concat([k \in 1..(end - i) |->
                                          decoded(i + k - 1)])),
                         end + 1)

\* first index at or after i that holds no digit
ScanDigits(s, i) == IF i > Len(s) THEN i ELSE SkipAll(s, i, Digits)

\* -?(0|[1-9]\d*): index after the integer part, 0 when there is none
ScanInt(s, i) ==
    LET j == IF i <= Len(s) /\ s[i] = "-" THEN i + 1 ELSE i
    IN  IF j > Len(s) \/ s[j] \notin Digits THEN 0
        ELSE IF s[j] = "0" THEN j + 1
        ELSE ScanDigits(s, j)

\* (\.\d+)?
ScanFrac(s, i) ==
    IF i + 1 <= Len(s) /\ s[i] = "." /\ s[i + 1] \in Digits
    THEN ScanDigits(s, i + 1) ELSE i

\* ([eE][-+]?\d+)?
ScanExp(s, i) ==
    IF i <= Len(s) /\ s[i] \in {"e", "E"}
    THEN LET j == IF i + 1 <= Len(s) /\ s[i + 1] \in {"+", "-"}
                  THEN i + 2 ELSE i + 1
         IN  IF j <= Len(s) /\ s[j] \in Digits THEN ScanDigits(s, j) ELSE i
    ELSE i

ParseNumber(s, i) ==
    LET a == ScanInt(s, i)
    IN  IF a = 0 THEN Fail
        ELSE LET e == ScanExp(s, ScanFrac(s, a))
             IN  Ok(NumVal(SubSeq(s, i, e - 1)), e)

ParseWord(s, i) ==
    IF \E w \in 1..Len(JsonWords) : MatchAt(s, JsonWords[w], i - 1)
    THEN LET w == CHOOSE w \in 1..Len(JsonWords) :
                      MatchAt(s, JsonWords[w], i - 1)
         IN  Ok(LitVal(JsonWords[w]), i + Len(JsonWords[w]))
    ELSE ParseNumber(s, i)

RECURSIVE ParseValue(_, _)
RECURSIVE ParseMembers(_, _, _)
RECURSIVE ParseElements(_, _, _)

\* i is the index where a key's opening quote must stand
ParseMembers(s, i, acc) ==
    IF i > Len(s) \/ s[i] # "\"" THEN Fail
    ELSE LET key == ParseString(s, i + 1)
         IN  IF ~key.ok THEN Fail
             ELSE LET c == SkipWs(s, key.next)
                  IN  IF c > Len(s) \/ s[c] # ":" THEN Fail
                      ELSE LET val == ParseValue(s, SkipWs(s, c + 1))
                           IN  IF ~val.ok THEN Fail
                               ELSE LET e == SkipWs(s, val.next)
                                        d == DictPut(acc, key.val.v, val.val)
                                    IN  IF e > Len(s) THEN Fail
                                        ELSE IF s[e] = "}"
                                             THEN Ok(ObjVal(d), e + 1)
                                        ELSE IF s[e] = ","
                                             THEN ParseMembers(
                                                    s, SkipWs(s, e + 1), d)
                                        ELSE Fail

\* i is the index where an element must start
ParseElements(s, i, acc) ==
    LET val == ParseValue(s, i)
    IN  IF ~val.ok THEN Fail
        ELSE LET e == SkipWs(s, val.next)
                 items == Append(acc, val.val)
             IN  IF e > Len(s) THEN Fail
                 ELSE IF s[e] = "]" THEN Ok(ArrVal(items), e + 1)
                 ELSE IF s[e] = ","
                      THEN ParseElements(s, SkipWs(s, e + 1), items)
                 ELSE Fail

ParseValue(s, i) ==
    IF i > Len(s) THEN Fail
    ELSE IF s[i] = "\"" THEN ParseString(s, i + 1)
    ELSE IF s[i] = "{"
         THEN LET j == SkipWs(s, i + 1)
              IN  IF j <= Len(s) /\ s[j] = "}" THEN Ok(ObjVal(<<>>), j + 1)
                  ELSE ParseMembers(s, j, <<>>)
    ELSE IF s[i] = "["
         THEN LET j == SkipWs(s, i + 1)
              IN  IF j <= Len(s) /\ s[j] = "]" THEN Ok(ArrVal(<<>>), j + 1)
                  ELSE ParseElements(s, j, <<>>)
    ELSE ParseWord(s, i)

\* json.loads(s): one value, whitespace around it, nothing else; ok = FALSE
\* stands for json.JSONDecodeError
loads(s) ==
    LET r == ParseValue(s, SkipWs(s, 1))
    IN  IF r.ok /\ SkipWs(s, r.next) = Len(s) + 1
        THEN [ok |-> TRUE, val |-> r.val]
        ELSE [ok |-> FALSE, val |-> <<>>]

\* ------------------------------------------------------------------------
\* json.dumps(value, indent=2)
\* ------------------------------------------------------------------------

IndentWidth == 2

Indent(level) == [k \in 1..(IndentWidth * level) |-> " "]

RECURSIVE Join(_, _)
\* sep.join(parts)
Join(parts, sep) ==
    IF parts = <<>> THEN <<>>
    ELSE IF Len(parts) = 1 THEN parts[1]
    ELSE parts[1] \o sep \o Join(Tail(parts), sep)

EscapeChar(c) ==
    CASE c = "\"" -> <<"\\", "\"">>
      [] c = "\\" -> <<"\\", "\\">>
      [] c = "\n" -> <<"\\", "n">>
      [] c = "\t" -> <<"\\", "t">>
      [] c = "\r" -> <<"\\", "r">>
      [] OTHER -> <<c>>

DumpsString(chars) ==
    <<"\"">> \o Concat([k \in 1..Len(chars) |-> EscapeChar(chars[k])])
             \o <<"\"">>

RECURSIVE Dumps(_, _)
Dumps(val, level) ==
    LET inner == <<"\n">> \o Indent(level + 1)
        sep == <<",">> \o inner
        close == <<"\n">> \o Indent(level)
    IN  CASE val.t = "str" -> DumpsString(val.v)
          [] val.t \in {"num", "lit"} -> val.v
          [] val.t = "arr" ->
               IF val.v = <<>> THEN <<"[", "]">>
               ELSE <<"[">> \o inner
                    \o Join([k \in 1..Len(val.v) |->
                               Dumps(val.v[k], level + 1)], sep)
                    \o close \o <<"]">>
          [] val.t = "obj" ->
               IF val.v = <<>> THEN <<"{", "}">>
               ELSE <<"{">> \o inner
                    \o Join([k \in 1..Len(val.v) |->
                               DumpsString(val.v[k].k) \o <<":", " ">>
                               \o Dumps(val.v[k].val, level + 1)], sep)
                    \o close \o <<"}">>

\* json.dumps(value, indent=2)
dumps(val) == Dumps(val, 0)

\* ------------------------------------------------------------------------
\* extract_json_from_response
\* ------------------------------------------------------------------------

JsonFence == <<BT,BT,BT,"j","s","o","n">>
Fence == <<BT,BT,BT>>

\* len('```json'), the offset that skips the opening marker
OpenerLen == 7

ErrorKey == <<"e","r","r","o","r">>
RawKey == <<"r","a","w","_","r","e","s","p","o","n","s","e">>
ParseErrorMessage == <<"F","a","i","l","e","d"," ","t","o"," ","p","a","r","s","e"," ","J","S","O","N"," ","f","r","o","m"," ","m","o","d","e","l">>

\* json_str with the closing fence searched forward from the opener
json_str_nearest_fence(text) ==
    LET json_markdown_start == find(text, JsonFence)
    IN  IF json_markdown_start # -1
        THEN LET json_markdown_end ==
                     FindFrom(text, Fence, json_markdown_start + OpenerLen)
             IN  strip(Slice(text, json_markdown_start + OpenerLen,
                             json_markdown_end))
        ELSE text

\* the string handed to json.loads
json_str(text) ==
    LET json_markdown_start == find(text, JsonFence)
    IN  IF json_markdown_start # -1
        THEN LET json_markdown_end == rfind(text, Fence)
             IN  strip(Slice(text, json_markdown_start + OpenerLen,
                             json_markdown_end))
        ELSE text

\* the dict returned when json.loads raises
ErrorEnvelope(text) ==
    ObjVal(<< Item(ErrorKey, StrVal(ParseErrorMessage)),
              Item(RawKey, StrVal(text)) >>)

\* what a call leaves behind: a returned value or an exception
Return(value) == [kind |-> "return", value |-> value]
Raise(exc, message) == [kind |-> "raise", exc |-> exc, message |-> message]

\* extract_json_from_response with the extracted substring, not the whole
\* text, stored in the error dict
extract_json_from_response_raw_candidate(text) ==
    LET candidate == json_str(text)
        parsed == loads(candidate)
    IN  [ kind |-> "return",
          value |-> IF parsed.ok THEN parsed.val
                    ELSE ErrorEnvelope(candidate),
          json_str |-> candidate ]

\* try: return json.loads(json_str)
\* except (json.JSONDecodeError, ValueError): return the error dict.
\* The record also keeps the local json_str that was handed to json.loads.
extract_json_from_response(text) ==
    LET candidate == json_str(text)
        parsed == loads(candidate)
    IN  [ kind |-> "return",
          value |-> IF parsed.ok THEN parsed.val ELSE ErrorEnvelope(text),
          json_str |-> candidate ]

\* ------------------------------------------------------------------------
\* The tool and resource handlers
\* ------------------------------------------------------------------------

explain_crypto_concept == <<"e","x","p","l","a","i","n","_","c","r","y","p","t","o","_","c","o","n","c","e","p","t">>
get_crypto_strategy == <<"g","e","t","_","c","r","y","p","t","o","_","s","t","r","a","t","e","g","y">>
analyze_crypto_indicator == <<"a","n","a","l","y","z","e","_","c","r","y","p","t","o","_","i","n","d","i","c","a","t","o","r">>

\* handle_list_tools: the registered tools and the field each one requires
handle_list_tools ==
    << [name |-> explain_crypto_concept, required |-> <<"topic">>],
       [name |-> get_crypto_strategy, required |-> <<"strategy_type">>],
       [name |-> analyze_crypto_indicator, required |-> <<"indicator">>] >>

StrategyPrefix == <<"c","r","y","p","t","o","c","u","r","r","e","n","c","y"," ","t","r","a","d","i","n","g"," ","s","t","r","a","t","e","g","y",":"," ">>
IndicatorPrefix == <<"c","r","y","p","t","o","c","u","r","r","e","n","c","y"," ","t","e","c","h","n","i","c","a","l"," ","i","n","d","i","c","a","t","o","r",":"," ">>

TopicRequired == <<"E","r","r","o","r",":"," ","T","o","p","i","c"," ","i","s"," ","r","e","q","u","i","r","e","d">>
StrategyRequired == <<"E","r","r","o","r",":"," ","S","t","r","a","t","e","g","y"," ","t","y","p","e"," ","i","s"," ","r","e","q","u","i","r","e","d">>
IndicatorRequired == <<"E","r","r","o","r",":"," ","I","n","d","i","c","a","t","o","r"," ","i","s"," ","r","e","q","u","i","r","e","d">>
UnknownTool == <<"U","n","k","n","o","w","n"," ","t","o","o","l",":"," ">>
ErrorPrefix == <<"E","r","r","o","r",":"," ">>

\* str(e) of the AttributeError that text.find raises when response.text is
\* None
NoneFindMessage == <<
    "'","N","o","n","e","T","y","p","e","'"," ","o","b","j","e","c","t"," ","h","a","s"," ","n",
    "o"," ","a","t","t","r","i","b","u","t","e"," ","'","f","i","n","d","'"
    >>

\* TextContent(type="text", text=...)
TextContent(text) == [type |-> "text", text |-> text]

\* arguments.get(key, "")
Get(arguments, key) ==
    IF key \in DOMAIN arguments THEN arguments[key] ELSE <<>>

\* client.models.generate_content(...) followed by
\* extract_json_from_response(response.text) and json.dumps(..., indent=2).
\* outcome is what the external model does with the one request: it answers
\* with a text, answers with no text (response.text is None), or fails.
AskModel(prompt, outcome) ==
    [ calls |-> <<prompt>>,
      result |->
        CASE outcome.kind = "error" -> Raise("APIError", outcome.message)
          [] outcome.kind = "empty" -> Raise("AttributeError", NoneFindMessage)
          [] outcome.kind = "reply" ->
               LET structured_response ==
                       extract_json_from_response(outcome.text)
               IN  Return(<<TextContent(dumps(structured_response.value))>>) ]

\* ToolBranch without the required-field check
ToolBranchUnchecked(value, required, topic, outcome) ==
    AskModel(Format(MASTER_PROMPT, topic), outcome)

\* one branch of the if/elif chain: the required-field check, then the
\* prompt, the model call and the formatting of its reply
ToolBranch(value, required, topic, outcome) ==
    IF value = <<>>
    THEN [calls |-> <<>>, result |-> Return(<<TextContent(required)>>)]
    ELSE AskModel(Format(MASTER_PROMPT, topic), outcome)

\* CallToolBody with the strategy and indicator labels left out of the topic
CallToolBodyUnprefixed(name, arguments, outcome) ==
    IF name = explain_crypto_concept
    THEN LET topic == Get(arguments, "topic")
         IN  ToolBranch(topic, TopicRequired, topic, outcome)
    ELSE IF name = get_crypto_strategy
    THEN LET strategy_type == Get(arguments, "strategy_type")
         IN  ToolBranch(strategy_type, StrategyRequired, strategy_type,
                        outcome)
    ELSE IF name = analyze_crypto_indicator
    THEN LET indicator == Get(arguments, "indicator")
         IN  ToolBranch(indicator, IndicatorRequired, indicator, outcome)
    ELSE [calls |-> <<>>,
          result |-> Return(<<TextContent(UnknownTool \o name)>>)]

\* the body of the try block
CallToolBody(name, arguments, outcome) ==
    IF name = explain_crypto_concept
    THEN LET topic == Get(arguments, "topic")
         IN  ToolBranch(topic, TopicRequired, topic, outcome)
    ELSE IF name = get_crypto_strategy
    THEN LET strategy_type == Get(arguments, "strategy_type")
         IN  ToolBranch(strategy_type, StrategyRequired,
                        StrategyPrefix \o strategy_type, outcome)
    ELSE IF name = analyze_crypto_indicator
    THEN LET indicator == Get(arguments, "indicator")
         IN  ToolBranch(indicator, IndicatorRequired,
                        IndicatorPrefix \o indicator, outcome)
    ELSE [calls |-> <<>>,
          result |-> Return(<<TextContent(UnknownTool \o name)>>)]

\* except Exception as e: return [TextContent(f"Error: {str(e)}")]
\* applied to what the try block left behind
ExceptException(body) ==
    IF body.result.kind = "raise"
    THEN [calls |-> body.calls,
          result |-> Return(<<TextContent(
                                ErrorPrefix \o body.result.message)>>)]
    ELSE body

\* handle_call_tool without the except clause
handle_call_tool_uncaught(name, arguments, outcome) ==
    CallToolBody(name, arguments, outcome)

\* handle_call_tool with an unknown name raised as an exception inside the
\* try block instead of returned
handle_call_tool_unknown_raises(name, arguments, outcome) ==
    IF name \in { explain_crypto_concept, get_crypto_strategy,
                  analyze_crypto_indicator }
    THEN ExceptException(CallToolBody(name, arguments, outcome))
    ELSE [calls |-> <<>>,
          result |-> Return(<<TextContent(
                                ErrorPrefix \o UnknownTool \o name)>>)]

\* try: <the if/elif chain> except Exception: ...
handle_call_tool(name, arguments, outcome) ==
    ExceptException(CallToolBody(name, arguments, outcome))

ResourceUri == <<"g","e","m","i","n","i",":","/","/","c","r","y","p","t","o","-","k","n","o","w","l","e","d","g","e">>

\* handle_list_resources
handle_list_resources ==
    << [uri |-> ResourceUri,
        name |-> <<"C","r","y","p","t","o"," ","K","n","o","w","l","e","d","g","e"," ","B","a","s","e">>,
        mimeType |-> <<"a","p","p","l","i","c","a","t","i","o","n","/","j","s","o","n">>] >>

\* the dict that handle_read_resource serialises
ResourceDescriptor ==
    ObjVal(<<
      Item(<<"d","e","s","c","r","i","p","t","i","o","n">>, StrVal(
        <<
    "G","e","m","i","n","i","-","p","o","w","e","r","e","d"," ","c","r","y","p","t","o","c","u",
    "r","r","e","n","c","y"," ","a","n","d"," ","q","u","a","n","t","i","t","a","t","i","v","e",
    " ","f","i","n","a","n","c","e"," ","k","n","o","w","l","e","d","g","e"," ","b","a","s","e"
    >>)),
      Item(<<"c","a","p","a","b","i","l","i","t","i","e","s">>, ArrVal(<<
        StrVal(<<"C","r","y","p","t","o","c","u","r","r","e","n","c","y"," ","c","o","n","c","e","p","t"," ","e","x","p","l","a","n","a","t","i","o","n","s">>),
        StrVal(<<"T","r","a","d","i","n","g"," ","s","t","r","a","t","e","g","y"," ","a","n","a","l","y","s","i","s">>),
        StrVal(<<"T","e","c","h","n","i","c","a","l"," ","i","n","d","i","c","a","t","o","r"," ","i","m","p","l","e","m","e","n","t","a","t","i","o","n">>),
        StrVal(<<"Q","u","a","n","t","i","t","a","t","i","v","e"," ","f","i","n","a","n","c","e"," ","m","e","t","h","o","d","s">>),
        StrVal(<<"P","y","t","h","o","n"," ","c","o","d","e"," ","e","x","a","m","p","l","e","s">>) >>)),
      Item(<<"u","s","a","g","e">>, StrVal(
        <<
    "U","s","e"," ","t","h","e"," ","a","v","a","i","l","a","b","l","e"," ","t","o","o","l","s",
    " ","t","o"," ","g","e","t"," ","d","e","t","a","i","l","e","d"," ","e","x","p","l","a","n",
    "a","t","i","o","n","s"," ","a","n","d"," ","i","m","p","l","e","m","e","n","t","a","t","i",
    "o","n","s"
    >>)) >>)

UnknownResource == <<"U","n","k","n","o","w","n"," ","r","e","s","o","u","r","c","e",":"," ">>

\* handle_read_resource matching the identifier as a prefix
handle_read_resource_prefix(uri) ==
    IF MatchAt(uri, ResourceUri, 0)
    THEN Return(dumps(ResourceDescriptor))
    ELSE Raise("ValueError", UnknownResource \o uri)

handle_read_resource(uri) ==
    IF uri = ResourceUri
    THEN Return(dumps(ResourceDescriptor))
    ELSE Raise("ValueError", UnknownResource \o uri)

\* ------------------------------------------------------------------------
\* The server: one request at a time, answered before the next is taken
\* ------------------------------------------------------------------------

\* tool names a client may ask for: the three registered ones, and names
\* that are not registered
ToolNames ==
    { explain_crypto_concept, get_crypto_strategy, analyze_crypto_indicator,
      <<"g","e","t","_","p","r","i","c","e">>, <<"E","x","p","l","a","i","n","_","C","r","y","p","t","o","_","C","o","n","c","e","p","t">>, <<>> }

Fields == {"topic", "strategy_type", "indicator"}

\* values a client may put in a field
ArgValues == { <<>>, <<" ">>, <<"R","S","I">>, <<"{","t","o","p","i","c","}">> }

\* argument bags: any of the fields, present or not
ArgumentBags == UNION {[keys -> ArgValues] : keys \in SUBSET Fields}

\* the reply of the end-to-end example: a fenced block holding {"name":"RSI"}
RsiReply == <<BT,BT,BT,"j","s","o","n","\n","{","\"","n","a","m","e","\"",":","\"","R","S","I","\"","}","\n",BT,BT,BT>>

\* texts the external model may answer with
ReplyTexts ==
    { RsiReply, <<"{","\"","n","a","m","e","\"",":"," ","\"","R","S","I","\"","}">>, <<"I"," ","c","a","n","n","o","t"," ","h","e","l","p"," ","w","i","t","h"," ","t","h","a","t",".">>,
      <<BT,BT,BT,"j","s","o","n","\n","{","\"","n","a","m","e","\"",":"," ","R","S","I","}","\n",BT,BT,BT>> }

\* what the external model may do with a request
Outcomes ==
    {[kind |-> "reply", text |-> t] : t \in ReplyTexts}
    \cup {[kind |-> "empty"]}
    \cup {[kind |-> "error", message |-> <<"5","0","3"," ","U","N","A","V","A","I","L","A","B","L","E">>]}

\* resource identifiers a client may ask for
Uris ==
    { ResourceUri, <<"g","e","m","i","n","i",":","/","/","c","r","y","p","t","o","-","k","n","o","w","l","e","d","g","e","/">>, <<"g","e","m","i","n","i",":","/","/","o","t","h","e","r">>,
      <<>> }

NoRequest == [op |-> "none"]
NoResult == [kind |-> "none"]

Init ==
    /\ pc = "idle"
    /\ req = NoRequest
    /\ result = NoResult
    /\ calls = <<>>
    /\ upstreamFailed = FALSE
    /\ readFailed = FALSE

\* the host invokes a tool and handle_call_tool runs to its end; the request
\* keeps the model's outcome only when the model was asked
CallTool(name, arguments, outcome) ==
    /\ pc = "idle"
    /\ pc' = "done"
    /\ result' = handle_call_tool(name, arguments, outcome).result
    /\ calls' = handle_call_tool(name, arguments, outcome).calls
    /\ req' = [op |-> "call_tool", name |-> name, arguments |-> arguments,
               outcome |-> IF calls' = <<>> THEN [kind |-> "unused"]
                           ELSE outcome]
    /\ UNCHANGED <<upstreamFailed, readFailed>>

\* the host reads a resource and handle_read_resource runs to its end
ReadResource(uri) ==
    /\ pc = "idle"
    /\ pc' = "done"
    /\ req' = [op |-> "read_resource", uri |-> uri]
    /\ result' = handle_read_resource(uri)
    /\ calls' = <<>>
    /\ UNCHANGED <<upstreamFailed, readFailed>>

ListTools ==
    /\ pc = "idle"
    /\ pc' = "done"
    /\ req' = [op |-> "list_tools"]
    /\ result' = Return(handle_list_tools)
    /\ calls' = <<>>
    /\ UNCHANGED <<upstreamFailed, readFailed>>

ListResources ==
    /\ pc = "idle"
    /\ pc' = "done"
    /\ req' = [op |-> "list_resources"]
    /\ result' = Return(handle_list_resources)
    /\ calls' = <<>>
    /\ UNCHANGED <<upstreamFailed, readFailed>>

\* the answer (a result, or the error of a handler that raised) goes back
\* to the host and the session takes the next request.  upstreamFailed and
\* readFailed remember that an answered request met a failing model call or
\* an unknown resource.
Respond ==
    /\ pc = "done"
    /\ pc' = "idle"
    /\ req' = NoRequest
    /\ result' = NoResult
    /\ calls' = <<>>
    /\ upstreamFailed' =
         (upstreamFailed \/ (req.op = "call_tool"
                             /\ req.outcome.kind \in {"error", "empty"}))
    /\ readFailed' =
         (readFailed \/ (req.op = "read_resource" /\ result.kind = "raise"))

Next ==
    \/ \E name \in ToolNames, arguments \in ArgumentBags, outcome \in Outcomes :
          CallTool(name, arguments, outcome)
    \/ \E uri \in Uris : ReadResource(uri)
    \/ ListTools
    \/ ListResources
    \/ Respond

Spec == Init /\ [][Next]_vars

\* ------------------------------------------------------------------------
\* extract_json_from_response on its own: every text made of at most
\* MaxChunks of these pieces is normalised once
\* ------------------------------------------------------------------------

ObjectA == <<"{","\"","a","\"",":"," ","1","}">>
ObjectB == <<"{","\"","b","\"",":","[","\"",BT,BT,BT,"\"","]","}">>

ReplyChunks ==
    { JsonFence, Fence, ObjectA, ObjectB, <<"\n">>, <<"x">>, <<BT>> }

SeqsUpTo(S, n) == UNION {[1..k -> S] : k \in 0..n}

InitExtract ==
    /\ pc = "start"
    /\ req \in {[op |-> "extract", chunks |-> cs, text |-> Concat(cs)] :
                  cs \in SeqsUpTo(ReplyChunks, MaxChunks)}
    /\ result = NoResult
    /\ calls = <<>>
    /\ upstreamFailed = FALSE
    /\ readFailed = FALSE

Extract ==
    /\ pc = "start"
    /\ req.op = "extract"
    /\ pc' = "done"
    /\ result' = extract_json_from_response(req.text)
    /\ UNCHANGED <<req, calls, upstreamFailed, readFailed>>

NextExtract == Extract

SpecExtract == InitExtract /\ [][NextExtract]_vars

\* ------------------------------------------------------------------------
\* MASTER_PROMPT.format on its own: every topic made of at most
\* MaxTopicChunks of these pieces is rendered once
\* ------------------------------------------------------------------------

TopicChunks ==
    { <<"R","S","I">>, <<"P","y","t","h","o","n">>, <<"{","t","o","p","i","c","}">>, <<"{","{">>, <<"}","}">>, <<" ">>,
      <<"a">>, <<"\"">> }

InitPrompt ==
    /\ pc = "start"
    /\ req \in {[op |-> "render", topic |-> Concat(cs)] :
                  cs \in SeqsUpTo(TopicChunks, MaxTopicChunks)}
    /\ result = NoResult
    /\ calls = <<>>
    /\ upstreamFailed = FALSE
    /\ readFailed = FALSE

Render ==
    /\ pc = "start"
    /\ req.op = "render"
    /\ pc' = "done"
    /\ result' = Return(Format(MASTER_PROMPT, req.topic))
    /\ UNCHANGED <<req, calls, upstreamFailed, readFailed>>

NextPrompt == Render

SpecPrompt == InitPrompt /\ [][NextPrompt]_vars

\* ------------------------------------------------------------------------
\* Properties
\* ------------------------------------------------------------------------

RegisteredTools ==
    {explain_crypto_concept, get_crypto_strategy, analyze_crypto_indicator}

\* the table of section 4.4: required field, its label in the error text,
\* and the topic composed from the caller's value
RequiredField(name) ==
    CASE name = explain_crypto_concept -> "topic"
      [] name = get_crypto_strategy -> "strategy_type"
      [] name = analyze_crypto_indicator -> "indicator"

FieldLabel(name) ==
    CASE name = explain_crypto_concept -> <<"T","o","p","i","c">>
      [] name = get_crypto_strategy -> <<"S","t","r","a","t","e","g","y"," ","t","y","p","e">>
      [] name = analyze_crypto_indicator -> <<"I","n","d","i","c","a","t","o","r">>

ComposedTopic(name, value) ==
    CASE name = explain_crypto_concept -> value
      [] name = get_crypto_strategy ->
           <<"c","r","y","p","t","o","c","u","r","r","e","n","c","y"," ","t","r","a","d","i","n","g"," ","s","t","r","a","t","e","g","y",":"," ">> \o value
      [] name = analyze_crypto_indicator ->
           <<"c","r","y","p","t","o","c","u","r","r","e","n","c","y"," ","t","e","c","h","n","i","c","a","l"," ","i","n","d","i","c","a","t","o","r",":"," ">> \o value

ToolCallDone == pc = "done" /\ req.op = "call_tool"

RegisteredCallDone == ToolCallDone /\ req.name \in RegisteredTools

\* the value the caller supplied for the tool's required field, "" if absent
SuppliedValue == Get(req.arguments, RequiredField(req.name))

\* the handler answered with exactly one text content holding this text
AnsweredText(text) ==
    /\ result.kind = "return"
    /\ Len(result.value) = 1
    /\ result.value[1] = [type |-> "text", text |-> text]

\* C1: a registered tool called with its required field missing or empty
\* returns the single text "Error: <Field> is required" as an ordinary
\* result and asks the model nothing.
C1_MissingFieldIsReported ==
    (RegisteredCallDone /\ SuppliedValue = <<>>)
    => /\ AnsweredText(<<"E","r","r","o","r",":"," ">> \o FieldLabel(req.name)
                       \o <<" ","i","s"," ","r","e","q","u","i","r","e","d">>)
       /\ Occurrences(result.value[1].text, <<"r","e","q","u","i","r","e","d">>) >= 1
       /\ calls = <<>>

C1_Witness ==
    /\ ToolCallDone
    /\ req.name = get_crypto_strategy
    /\ "strategy_type" \in DOMAIN req.arguments
    /\ req.arguments["strategy_type"] = <<>>
    /\ AnsweredText(<<"E","r","r","o","r",":"," ","S","t","r","a","t","e","g","y"," ","t","y","p","e"," ","i","s"," ","r","e","q","u","i","r","e","d">>)
    /\ calls = <<>>

\* C2: a registered tool called with a required value that is empty after
\* trimming whitespace never sends a prompt to the model.
C2_BlankValueNeverSent ==
    (RegisteredCallDone /\ strip(SuppliedValue) = <<>>) => calls = <<>>

\* C3: whatever the tool name, the arguments and the model's outcome, the
\* handler returns one text content and asks the model at most once; when
\* the model call fails the text is "Error: <message>", and when a later
\* step raises it is "Error: " followed by that exception's message.
C3_FailureIsAnswered ==
    ToolCallDone
    => /\ result.kind = "return"
       /\ Len(result.value) = 1
       /\ result.value[1].type = "text"
       /\ Len(calls) <= 1
       /\ req.outcome.kind = "error"
          => /\ Len(calls) = 1
             /\ AnsweredText(<<"E","r","r","o","r",":"," ">> \o req.outcome.message)
       /\ req.outcome.kind = "empty"
          => /\ Len(calls) = 1
             /\ MatchAt(result.value[1].text, <<"E","r","r","o","r",":"," ">>, 0)

\* a failed model call has been answered earlier in the session, and now a
\* failing call is answered again
C3_Witness ==
    /\ upstreamFailed
    /\ ToolCallDone
    /\ req.outcome.kind = "error"
    /\ AnsweredText(<<"E","r","r","o","r",":"," ","5","0","3"," ","U","N","A","V","A","I","L","A","B","L","E">>)

\* value of a key in a parsed dict, <<>> when the key is absent
DictGet(obj, key) ==
    IF \E n \in 1..Len(obj.v) : obj.v[n].k = key
    THEN <<obj.v[CHOOSE n \in 1..Len(obj.v) : obj.v[n].k = key].val>>
    ELSE <<>>

ExtractDone == pc = "done" /\ req.op = "extract"

IsObjectText(chunk) == loads(chunk).ok /\ loads(chunk).val.t = "obj"

EmbedsObject(chunks, k) ==
    /\ k > 1
    /\ k < Len(chunks)
    /\ chunks[k - 1] = JsonFence
    /\ IsObjectText(chunks[k])
    /\ chunks[k + 1] = Fence

\* C5: whenever a well-formed JSON object stands between the opener and a
\* closing fence of the reply, the normaliser returns exactly that object.
C5_RoundTrip ==
    ExtractDone
    => \A k \in 1..Len(req.chunks) :
         EmbedsObject(req.chunks, k)
         => /\ result.kind = "return"
            /\ result.value = loads(req.chunks[k]).val

ExpectedPrompt(topic) ==
    PromptIntro \o topic \o PromptSteps \o <<"{">> \o PromptSchema
    \o <<"}">> \o PromptOutro

RsiPretty == <<"{","\n"," "," ","\"","n","a","m","e","\"",":"," ","\"","R","S","I","\"","\n","}">>

\* C6: a registered tool called with a non-empty value asks the model
\* exactly once, with the template whose placeholder holds the composed
\* topic, and returns the pretty-printed normalised reply; indicator "RSI"
\* with the fenced reply {"name":"RSI"} yields {"name": "RSI"}.
C6_OneCallWithComposedTopic ==
    (RegisteredCallDone /\ SuppliedValue # <<>>)
    => /\ calls = <<ExpectedPrompt(ComposedTopic(req.name, SuppliedValue))>>
       /\ req.outcome.kind = "reply"
          => AnsweredText(
               dumps(extract_json_from_response(req.outcome.text).value))
       /\ (req.outcome.kind = "reply" /\ req.outcome.text = RsiReply)
          => AnsweredText(RsiPretty)

QuotedRsiTopic ==
    <<
    "\"","c","r","y","p","t","o","c","u","r","r","e","n","c","y"," ","t","e","c","h","n","i",
    "c","a","l"," ","i","n","d","i","c","a","t","o","r",":"," ","R","S","I","\""
    >>

C6_Witness ==
    /\ ToolCallDone
    /\ req.name = analyze_crypto_indicator
    /\ SuppliedValue = <<"R","S","I">>
    /\ req.outcome.kind = "reply"
    /\ req.outcome.text = RsiReply
    /\ Len(calls) = 1
    /\ Occurrences(calls[1], QuotedRsiTopic) = 1
    /\ AnsweredText(RsiPretty)

\* C7: a tool name that is not registered returns the single text
\* "Unknown tool: <name>" as an ordinary result, whatever the arguments,
\* and asks the model nothing.
C7_UnknownToolIsNamed ==
    (ToolCallDone /\ req.name \notin RegisteredTools)
    => /\ AnsweredText(<<"U","n","k","n","o","w","n"," ","t","o","o","l",":"," ">> \o req.name)
       /\ calls = <<>>

C7_Witness ==
    /\ ToolCallDone
    /\ req.name = <<"g","e","t","_","p","r","i","c","e">>
    /\ DOMAIN req.arguments = Fields
    /\ AnsweredText(<<"U","n","k","n","o","w","n"," ","t","o","o","l",":"," ","g","e","t","_","p","r","i","c","e">>)
    /\ calls = <<>>

RenderDone == pc = "done" /\ req.op = "render"

\* the template's text with nothing at the placeholder
TemplateFixedText == ExpectedPrompt(<<>>)

\* the rendered prompt is the template's text with the topic standing at
\* the placeholder
TopicAtPlaceholder ==
    /\ result.kind = "return"
    /\ Len(result.value) = Len(TemplateFixedText) + Len(req.topic)
    /\ MatchAt(result.value, req.topic, Len(PromptIntro))
    /\ SubSeq(result.value, 1, Len(PromptIntro)) = PromptIntro
    /\ SubSeq(result.value, Len(PromptIntro) + Len(req.topic) + 1,
              Len(result.value))
         = SubSeq(TemplateFixedText, Len(PromptIntro) + 1,
                  Len(TemplateFixedText))

\* C8 as stated: for every non-empty topic the rendered prompt contains the
\* topic exactly once, at the placeholder, and is otherwise the template.
C8_TopicOccursOnce ==
    (RenderDone /\ req.topic # <<>>)
    => /\ TopicAtPlaceholder
       /\ Occurrences(result.value, req.topic) = 1

\* C8 amended: for every non-empty topic the rendered prompt is the
\* template's text with the topic inserted verbatim, once, at the
\* placeholder; nothing is said about the topic not being spelled elsewhere.
C8_TopicSubstitutedOnce ==
    (RenderDone /\ req.topic # <<>>) => TopicAtPlaceholder

\* a topic that looks like the placeholder itself is inserted verbatim
C8_Witness ==
    /\ RenderDone
    /\ req.topic = <<"{","t","o","p","i","c","}">>
    /\ TopicAtPlaceholder
    /\ Occurrences(result.value, <<"{","t","o","p","i","c","}">>) = 1

ReadDone == pc = "done" /\ req.op = "read_resource"

DescriptorText ==
    <<
    "{","\n"," "," ","\"","d","e","s","c","r","i","p","t","i","o","n","\"",":"," ","\"","G","e",
    "m","i","n","i","-","p","o","w","e","r","e","d"," ","c","r","y","p","t","o","c","u","r","r",
    "e","n","c","y"," ","a","n","d"," ","q","u","a","n","t","i","t","a","t","i","v","e"," ","f",
    "i","n","a","n","c","e"," ","k","n","o","w","l","e","d","g","e"," ","b","a","s","e","\"",
    ",","\n"," "," ","\"","c","a","p","a","b","i","l","i","t","i","e","s","\"",":"," ","[","\n",
    " "," "," "," ","\"","C","r","y","p","t","o","c","u","r","r","e","n","c","y"," ","c","o",
    "n","c","e","p","t"," ","e","x","p","l","a","n","a","t","i","o","n","s","\"",",","\n"," ",
    " "," "," ","\"","T","r","a","d","i","n","g"," ","s","t","r","a","t","e","g","y"," ","a",
    "n","a","l","y","s","i","s","\"",",","\n"," "," "," "," ","\"","T","e","c","h","n","i","c",
    "a","l"," ","i","n","d","i","c","a","t","o","r"," ","i","m","p","l","e","m","e","n","t","a",
    "t","i","o","n","\"",",","\n"," "," "," "," ","\"","Q","u","a","n","t","i","t","a","t","i",
    "v","e"," ","f","i","n","a","n","c","e"," ","m","e","t","h","o","d","s","\"",",","\n"," ",
    " "," "," ","\"","P","y","t","h","o","n"," ","c","o","d","e"," ","e","x","a","m","p","l",
    "e","s","\"","\n"," "," ","]",",","\n"," "," ","\"","u","s","a","g","e","\"",":"," ","\"",
    "U","s","e"," ","t","h","e"," ","a","v","a","i","l","a","b","l","e"," ","t","o","o","l","s",
    " ","t","o"," ","g","e","t"," ","d","e","t","a","i","l","e","d"," ","e","x","p","l","a","n",
    "a","t","i","o","n","s"," ","a","n","d"," ","i","m","p","l","e","m","e","n","t","a","t","i",
    "o","n","s","\"","\n","}"
    >>

\* C9: reading gemini://crypto-knowledge returns the same static text at
\* any point of the session, a JSON object with description, usage and a
\* capabilities list of at least one string; reading any other identifier
\* raises and returns nothing.
C9_ResourceIsStatic ==
    ReadDone
    => IF req.uri = <<"g","e","m","i","n","i",":","/","/","c","r","y","p","t","o","-","k","n","o","w","l","e","d","g","e">>
       THEN /\ result.kind = "return"
            /\ result.value = DescriptorText
            /\ LET d == loads(result.value)
                   caps == DictGet(d.val, <<"c","a","p","a","b","i","l","i","t","i","e","s">>)
               IN  /\ d.ok
                   /\ d.val.t = "obj"
                   /\ DictGet(d.val, <<"d","e","s","c","r","i","p","t","i","o","n">>) # <<>>
                   /\ DictGet(d.val, <<"u","s","a","g","e">>) # <<>>
                   /\ caps # <<>>
                   /\ caps[1].t = "arr"
                   /\ Len(caps[1].v) >= 1
                   /\ \A n \in 1..Len(caps[1].v) : caps[1].v[n].t = "str"
       ELSE result.kind = "raise"

\* after a failed read and a failed model call, the fixed identifier is
\* read successfully
C9_Witness ==
    /\ readFailed
    /\ upstreamFailed
    /\ ReadDone
    /\ req.uri = ResourceUri
    /\ result = Return(DescriptorText)

\* a is the first place of the text where the opener stands, b the last
\* place where a fence stands (0-based)
FirstOpener(text, a) ==
    /\ MatchAt(text, JsonFence, a)
    /\ \A i \in 0..(a - 1) : ~MatchAt(text, JsonFence, i)

LastFence(text, b) ==
    /\ MatchAt(text, Fence, b)
    /\ \A i \in (b + 1)..Len(text) : ~MatchAt(text, Fence, i)

\* the characters after the opener at a and before the fence at b, none
\* when that fence does not lie after the opener
Between(text, a, b) ==
    LET from == a + Len(JsonFence)
    IN  [k \in 1..(IF b > from THEN b - from ELSE 0) |-> text[from + k]]

\* C10: with an opener in the text, the string handed to the JSON parser is
\* the trimmed text between the first opener and the last fence of the
\* whole text; without an opener it is the whole text.
C10_CandidateUsesLastFence ==
    ExtractDone
    => IF \A i \in 0..Len(req.text) : ~MatchAt(req.text, JsonFence, i)
       THEN result.json_str = req.text
       ELSE \E a, b \in 0..Len(req.text) :
              /\ FirstOpener(req.text, a)
              /\ LastFence(req.text, b)
              /\ result.json_str = strip(Between(req.text, a, b))

\* two fences follow the opener and the candidate runs to the second one
C10_Witness ==
    /\ ExtractDone
    /\ req.chunks = <<JsonFence, ObjectA, Fence, Fence>>
    /\ result.json_str = ObjectA \o Fence

====
